---- MODULE Spec2Model ----
(***************************************************************************)
(* Model of the TDR validator (tools/tdr_validator.py): the TDRValidator   *)
(* instance with its diagnostic accumulators, the files it reads, and the  *)
(* two entry points validate_file and validate_directory.                  *)
(*                                                                         *)
(* A file's content is the sequence of its lines, i.e. content.split('\n') *)
(* (the element after a final line break is an empty line).  A line is a   *)
(* record [k, key, val, n, toks]:                                          *)
(*   k = "dash"   the line "---"                                           *)
(*   k = "kv"     a YAML line "key: value" indented by n levels            *)
(*   k = "item"   a YAML line "- value"                                    *)
(*   k = "bad"    a line that is not well-formed YAML                      *)
(*   k = "h"      n hash characters, whitespace and the heading text key   *)
(*   k = "t"      plain text, the sequence toks of its words               *)
(* A word is [pre, num]: the text pre, followed by "-" and the digits num  *)
(* when num is not empty.  A decoded YAML value is [t, v, sub]: its        *)
(* Python type t, its text v and, for a mapping or list, its entries sub.  *)
(* A diagnostic is the tuple of its message text and the values formatted  *)
(* into it.                                                                *)
(***************************************************************************)
EXTENDS Naturals, Sequences, FiniteSets, TLC

VARIABLES
    strict_mode, errors, warnings,  \* the fields of the TDRValidator instance
    fs,       \* the files: path |-> [exists, utf8, content]
    pc,       \* "editing" while the author changes the file, then "validating"
    edits,    \* the number of changes the author has made
    last,     \* the last call: [op, arg, out]
    before,   \* the instance's errors and warnings when the last call began
    heap,     \* the list objects: [lists, errors, warnings]
    held,     \* the results the caller holds: [errors, warnings, was]
    window    \* how many of the latest results the caller holds on to

vars == <<strict_mode, errors, warnings, fs, pc, edits, last, before, heap, held, window>>

-----------------------------------------------------------------------------
(* Schema registry *)

TDR_TYPES == {"MDD", "ADR", "EDR", "IDR", "TDM"}

required_sections(t) ==
    CASE t = "MDD" -> <<"Status", "Context", "Decision", "Rationale",
                        "Consequences", "Implementation", "Alternatives Considered">>
      [] t = "ADR" -> <<"Status", "Context", "Decision", "Consequences">>
      [] t = "EDR" -> <<"Status", "Context", "Decision", "Implementation">>
      [] t = "IDR" -> <<"Status", "Context", "Decision", "Implementation">>
      [] t = "TDM" -> <<"Context", "Decision", "Rationale">>

optional_sections(t) ==
    CASE t = "MDD" -> <<"Assumptions", "Constraints", "Risks", "Timeline",
                        "Success Metrics", "Review Schedule">>
      [] t = "ADR" -> <<"Rationale", "Alternatives Considered", "Implementation",
                        "Assumptions", "Constraints", "Related Decisions">>
      [] t = "EDR" -> <<"Rationale", "Consequences", "Alternatives Considered",
                        "Technical Details", "Testing Approach", "Performance Impact">>
      [] t = "IDR" -> <<"Rationale", "Code Examples", "Testing Notes",
                        "Performance Notes", "Dependencies", "Rollback Plan">>
      [] t = "TDM" -> <<"Implementation", "Consequences", "Next Steps",
                        "Follow-up Required", "Related Work">>

VALID_STATUSES == {"proposed", "accepted", "rejected", "superseded",
                   "deprecated", "under-review", "implemented"}

required_fields == <<"type", "title", "status", "date", "decision_owner">>

valid_levels == {"low", "medium", "high", "critical"}

(* the length below which an ai-context summary draws a warning *)
MinSummaryLen == 20

-----------------------------------------------------------------------------
(* Values, words and lines *)

Range(s) == {s[i] : i \in DOMAIN s}

Val(t, v) == [t |-> t, v |-> v, sub |-> <<>>]
Str(v)    == Val("str", v)
Int(v)    == Val("int", v)
Null      == Val("null", "")
List(sub) == [t |-> "list", v |-> "", sub |-> sub]
Map(sub)  == [t |-> "map", v |-> "", sub |-> sub]
(* "key:" with nothing after it: a nested block follows, or the value is null *)
Nest      == Val("nest", "")

Word(w)       == [pre |-> w, num |-> ""]
Ref(pre, num) == [pre |-> pre, num |-> num]

Line(k, key, val, n, toks) == [k |-> k, key |-> key, val |-> val, n |-> n, toks |-> toks]
Dash        == Line("dash", "", Null, 0, <<>>)
KV(key, v)  == Line("kv", key, v, 0, <<>>)
KVin(key, v) == Line("kv", key, v, 1, <<>>)
Item(v)     == Line("item", "", v, 0, <<>>)
BadYaml     == Line("bad", "", Null, 0, <<>>)
H(n, name)  == Line("h", name, Null, n, <<>>)
Text(toks)  == Line("t", "", Null, 0, toks)
EmptyLine   == Text(<<>>)

(* str.upper() and str.lower(), on the strings that occur as type and status *)
upper(s) ==
    CASE s = "adr" -> "ADR"
      [] s = "xyz" -> "XYZ"
      [] s = "accepted" -> "ACCEPTED"
      [] OTHER -> s

lower(s) ==
    CASE s = "Accepted" -> "accepted"
      [] s = "Bogus" -> "bogus"
      [] s = "ADR" -> "adr"
      [] OTHER -> s

(* a line that str.strip() reduces to nothing *)
IsBlank(l) == l.k = "t" /\ l.toks = <<>>

RECURSIVE lstrip(_)
lstrip(ls) == IF ls # <<>> /\ IsBlank(Head(ls)) THEN lstrip(Tail(ls)) ELSE ls

RECURSIVE rstrip(_)
rstrip(ls) ==
    IF ls # <<>> /\ IsBlank(ls[Len(ls)]) THEN rstrip(SubSeq(ls, 1, Len(ls) - 1)) ELSE ls

(* '\n'.join(lines).strip(): the lines without the blank ones at both ends *)
strip(ls) == rstrip(lstrip(ls))

-----------------------------------------------------------------------------
(* dict: a sequence of entries [key, val] in insertion order; assigning to a
   key that is present replaces its value where it stands *)

HasKey(d, key) == \E i \in DOMAIN d : d[i].key = key

Lookup(d, key) == d[CHOOSE i \in DOMAIN d : d[i].key = key].val

Put(d, key, val) ==
    IF HasKey(d, key)
    THEN [i \in DOMAIN d |-> IF d[i].key = key THEN [key |-> key, val |-> val] ELSE d[i]]
    ELSE Append(d, [key |-> key, val |-> val])

Keys(d) == [i \in DOMAIN d |-> d[i].key]

-----------------------------------------------------------------------------
(* yaml.safe_load *)

(* lines the YAML scanner skips: empty lines, comments (a line that starts
   with "#"), and the document-start marker at the top of the text *)
YamlSkipped(ls, i) ==
    \/ IsBlank(ls[i])
    \/ ls[i].k = "h"
    \/ ls[i].k = "dash" /\ i = 1

YamlLines(ls) ==
    LET keep == {i \in DOMAIN ls : ~YamlSkipped(ls, i)}
        F[i \in 0..Len(ls)] ==
            IF i = 0 THEN <<>>
            ELSE IF i \in keep THEN Append(F[i - 1], ls[i]) ELSE F[i - 1]
    IN  F[Len(ls)]

(* a block mapping: st = [m, open, ok]; open is the key whose nested block
   the indented lines extend *)
YamlMapStep(st, l) ==
    IF ~st.ok THEN st
    ELSE IF l.n = 0
    THEN [m    |-> Put(st.m, l.key, IF l.val.t = "nest" THEN Null ELSE l.val),
          open |-> IF l.val.t = "nest" THEN l.key ELSE "",
          ok   |-> TRUE]
    ELSE IF st.open = "" THEN [st EXCEPT !.ok = FALSE]
    ELSE LET cur == Lookup(st.m, st.open)
             sub == IF cur.t = "map" THEN cur.sub ELSE <<>>
         IN  [st EXCEPT !.m = Put(st.m, st.open, Map(Put(sub, l.key, l.val)))]

RECURSIVE YamlMap(_, _)
YamlMap(st, ls) == IF ls = <<>> THEN st ELSE YamlMap(YamlMapStep(st, Head(ls)), Tail(ls))

(* the YAML type of a plain scalar that is not quoted *)
IsIntText(w) == w \in {"0", "7", "42"}

RECURSIVE WordsOf(_)
WordsOf(ls) == IF ls = <<>> THEN <<>> ELSE Head(ls).toks \o WordsOf(Tail(ls))

YamlScalar(ls) ==
    LET ws == WordsOf(ls)
    IN  IF Len(ws) = 1 /\ ws[1].num = "" /\ IsIntText(ws[1].pre)
        THEN Int(ws[1].pre)
        ELSE [t |-> "str", v |-> "", sub |-> ws]

(* [ok, val]: ok = FALSE stands for yaml.YAMLError *)
safe_load(yaml_content) ==
    LET ls    == YamlLines(yaml_content)
        kinds == {ls[i].k : i \in DOMAIN ls}
    IN  IF ls = <<>> THEN [ok |-> TRUE, val |-> Null]
        ELSE IF kinds = {"kv"}
        THEN LET st == YamlMap([m |-> <<>>, open |-> "", ok |-> TRUE], ls)
             IN  [ok |-> st.ok, val |-> Map(st.m)]
        ELSE IF kinds = {"item"}
        THEN [ok |-> TRUE, val |-> List([i \in DOMAIN ls |-> ls[i].val])]
        ELSE IF kinds = {"t"}
        THEN [ok |-> TRUE, val |-> YamlScalar(ls)]
        ELSE [ok |-> FALSE, val |-> Null]

-----------------------------------------------------------------------------
(* Python's view of a decoded value *)

(* bool(value) *)
Truthy(x) ==
    CASE x.t = "null" -> FALSE
      [] x.t \in {"map", "list"} -> x.sub # <<>>
      [] x.t = "str" -> x.v # "" \/ x.sub # <<>>
      [] x.t = "int" -> x.v # "0"
      [] OTHER -> TRUE

(* `key in x` raises TypeError unless x is a container or a string *)
InRaises(x) == x.t \notin {"map", "list", "str"}

(* `key in x`: a key of the mapping, an element of the list, a substring of
   the string (of the strings here, key is a substring iff it is a word) *)
In(key, x) ==
    CASE x.t = "map"  -> HasKey(x.sub, key)
      [] x.t = "list" -> \E i \in DOMAIN x.sub : x.sub[i] = Str(key)
      [] x.t = "str"  -> x.v = key \/ \E i \in DOMAIN x.sub : x.sub[i].pre = key
      [] OTHER -> FALSE

(* x[key] raises TypeError unless x is a mapping *)
GetRaises(x) == x.t # "map"

Get(x, key) == Lookup(x.sub, key)

-----------------------------------------------------------------------------
(* The TDRValidator instance: self = [strict_mode, errors, warnings, fault].
   fault names the exception that left a method, "" while none has; a method
   entered with a fault pending does nothing. *)

Raise(self, exc) == [self EXCEPT !.fault = exc]

AddError(self, e) == [self EXCEPT !.errors = Append(@, e)]

AddWarning(self, w) == [self EXCEPT !.warnings = Append(@, w)]

(* content.startswith('---\n') *)
StartsWithDelimiter(content) == Len(content) >= 2 /\ content[1] = Dash

(* content.find('\n---\n', 4): the lines "---" that a line break follows and
   whose leading line break stands at offset 4 or later; 0 stands for -1 *)
ClosingCandidates(content) ==
    {i \in DOMAIN content : i >= 3 /\ i < Len(content) /\ content[i] = Dash}

FindClosing(content) ==
    LET c == ClosingCandidates(content)
    IN  IF c = {} THEN 0 ELSE CHOOSE i \in c : \A j \in c : i <= j

(* a decode failure that records no error *)
ParseFrontmatterSilently(self, content) ==
    IF ~StartsWithDelimiter(content) \/ FindClosing(content) = 0
    THEN [self |-> self, frontmatter |-> Null, markdown_content |-> content]
    ELSE LET end_marker == FindClosing(content)
             loaded     == safe_load(SubSeq(content, 2, end_marker - 1))
         IN  IF loaded.ok
             THEN [self |-> self, frontmatter |-> loaded.val,
                   markdown_content |-> SubSeq(content, end_marker + 1, Len(content))]
             ELSE [self |-> self, frontmatter |-> Null, markdown_content |-> content]

(* [self, frontmatter, markdown_content] *)
_parse_frontmatter(self, content) ==
    IF ~StartsWithDelimiter(content)
    THEN [self |-> self, frontmatter |-> Null, markdown_content |-> content]
    ELSE LET end_marker == FindClosing(content)
         IN  IF end_marker = 0
             THEN [self |-> self, frontmatter |-> Null, markdown_content |-> content]
             ELSE LET yaml_content == SubSeq(content, 2, end_marker - 1)
                      loaded       == safe_load(yaml_content)
                  IN  IF loaded.ok
                      THEN [self |-> self, frontmatter |-> loaded.val,
                            markdown_content |-> SubSeq(content, end_marker + 1, Len(content))]
                      ELSE [self |-> AddError(self, <<"Invalid YAML frontmatter">>),
                            frontmatter |-> Null, markdown_content |-> content]

-----------------------------------------------------------------------------
(* _validate_frontmatter, check by check *)

RECURSIVE CheckRequiredFields(_, _, _)
CheckRequiredFields(self, frontmatter, fields) ==
    IF fields = <<>> \/ self.fault # "" THEN self
    ELSE IF InRaises(frontmatter) THEN Raise(self, "TypeError")
    ELSE CheckRequiredFields(
             IF ~In(Head(fields), frontmatter)
             THEN AddError(self, <<"Missing required frontmatter field", Head(fields)>>)
             ELSE self,
             frontmatter, Tail(fields))

CheckType(self, frontmatter) ==
    IF self.fault # "" \/ ~In("type", frontmatter) THEN self
    ELSE IF GetRaises(frontmatter) THEN Raise(self, "TypeError")
    ELSE LET value == Get(frontmatter, "type")
         IN  IF value.t # "str" THEN Raise(self, "AttributeError")
             ELSE IF upper(value.v) \notin TDR_TYPES
             THEN AddError(self, <<"Invalid TDR type", value.v>>)
             ELSE self

(* the status compared as written *)
CheckStatusCaseSensitive(self, frontmatter) ==
    IF self.fault # "" \/ ~In("status", frontmatter) THEN self
    ELSE IF GetRaises(frontmatter) THEN Raise(self, "TypeError")
    ELSE LET value == Get(frontmatter, "status")
         IN  IF value.t # "str" THEN Raise(self, "AttributeError")
             ELSE IF value.v \notin VALID_STATUSES
             THEN AddError(self, <<"Invalid status", value.v>>)
             ELSE self

CheckStatus(self, frontmatter) ==
    IF self.fault # "" \/ ~In("status", frontmatter) THEN self
    ELSE IF GetRaises(frontmatter) THEN Raise(self, "TypeError")
    ELSE LET value == Get(frontmatter, "status")
         IN  IF value.t # "str" THEN Raise(self, "AttributeError")
             ELSE IF lower(value.v) \notin VALID_STATUSES
             THEN AddError(self, <<"Invalid status", value.v>>)
             ELSE self

(* datetime.fromisoformat(str(value)) returns: str() of a YAML date is its
   ISO text; of the other values only a string that holds an ISO date passes *)
IsoDates == {"2025-01-15", "2025-01-15T10:30:00"}

FromIsoFormatOk(value) ==
    \/ value.t = "date"
    \/ value.t = "str" /\ value.v \in IsoDates

CheckDate(self, frontmatter) ==
    IF self.fault # "" \/ ~In("date", frontmatter) THEN self
    ELSE IF GetRaises(frontmatter) THEN Raise(self, "TypeError")
    ELSE LET value == Get(frontmatter, "date")
         IN  IF ~FromIsoFormatOk(value)
             THEN AddError(self, <<"Invalid date format", value.v>>)
             ELSE self

(* value.strip() of a string is empty *)
StripsToEmpty(value) == value.v \in {"", " ", "  "}

CheckDecisionOwner(self, frontmatter) ==
    IF self.fault # "" \/ ~In("decision_owner", frontmatter) THEN self
    ELSE IF GetRaises(frontmatter) THEN Raise(self, "TypeError")
    ELSE LET value == Get(frontmatter, "decision_owner")
         IN  IF value.t # "str" THEN AddError(self, <<"decision_owner must be a string">>)
             ELSE IF StripsToEmpty(value)
             THEN AddError(self, <<"decision_owner cannot be empty">>)
             ELSE self

(* int(value) raises ValueError or TypeError; str(value) never raises *)
IntRaises(value) == value.t \notin {"int", "float", "bool"}

ConversionRaises(field, value) == IF field # "tdr_id" THEN IntRaises(value) ELSE FALSE

CheckOptionalField(self, frontmatter, field) ==
    IF self.fault # "" \/ ~In(field, frontmatter) THEN self
    ELSE IF GetRaises(frontmatter) THEN Raise(self, "TypeError")
    ELSE LET value == Get(frontmatter, field)
         IN  IF value.t \notin {"int", "bool", "str"} /\ ConversionRaises(field, value)
             THEN AddWarning(self, <<"Field should be numeric or string", field>>)
             ELSE self

CheckReviewers(self, frontmatter) ==
    IF self.fault # "" \/ ~In("reviewers", frontmatter) THEN self
    ELSE IF GetRaises(frontmatter) THEN Raise(self, "TypeError")
    ELSE IF Get(frontmatter, "reviewers").t # "list"
         THEN AddWarning(self, <<"reviewers should be a list">>)
         ELSE self

_validate_frontmatter(self, frontmatter) ==
    LET s1 == CheckRequiredFields(self, frontmatter, required_fields)
        s2 == CheckType(s1, frontmatter)
        s3 == CheckStatus(s2, frontmatter)
        s4 == CheckDate(s3, frontmatter)
        s5 == CheckDecisionOwner(s4, frontmatter)
        s6 == CheckOptionalField(s5, frontmatter, "tdr_id")
        s7 == CheckOptionalField(s6, frontmatter, "supersedes")
    IN  CheckReviewers(s7, frontmatter)

-----------------------------------------------------------------------------
(* _parse_sections: st = [sections, current_section, current_content];
   current_section = "" stands for None *)

(* re.match(r'^(#{2,3})\s+(.+)$', line) *)
header_match(line) == line.k = "h" /\ line.n \in {2, 3}

(* the first occurrence of a heading kept *)
SaveSectionFirstWins(st) ==
    IF st.current_section # "" /\ ~HasKey(st.sections, st.current_section)
    THEN Put(st.sections, st.current_section, strip(st.current_content))
    ELSE st.sections

SaveSection(st) ==
    IF st.current_section # ""
    THEN Put(st.sections, st.current_section, strip(st.current_content))
    ELSE st.sections

ParseLine(st, line) ==
    IF header_match(line)
    THEN [sections        |-> SaveSection(st),
          current_section |-> line.key,
          current_content |-> <<>>]
    ELSE IF st.current_section # ""
    THEN [st EXCEPT !.current_content = Append(@, line)]
    ELSE st

RECURSIVE ParseLines(_, _)
ParseLines(st, lines) ==
    IF lines = <<>> THEN st ELSE ParseLines(ParseLine(st, Head(lines)), Tail(lines))

_parse_sections(content) ==
    SaveSection(ParseLines([sections |-> <<>>, current_section |-> "",
                            current_content |-> <<>>], content))

-----------------------------------------------------------------------------
(* _validate_sections *)

(* an empty section taken for a missing one *)
RECURSIVE CheckRequiredSectionsEmptyAsMissing(_, _, _)
CheckRequiredSectionsEmptyAsMissing(self, sections, required) ==
    IF required = <<>> THEN self
    ELSE LET name == Head(required)
             next == IF ~HasKey(sections, name) \/ strip(Lookup(sections, name)) = <<>>
                     THEN AddError(self, <<"Missing required section", name>>)
                     ELSE self
         IN  CheckRequiredSectionsEmptyAsMissing(next, sections, Tail(required))

(* only the sections that are there checked *)
RECURSIVE CheckRequiredSectionsPresentOnly(_, _, _)
CheckRequiredSectionsPresentOnly(self, sections, required) ==
    IF required = <<>> THEN self
    ELSE LET name == Head(required)
             next == IF HasKey(sections, name) /\ strip(Lookup(sections, name)) = <<>>
                     THEN AddError(self, <<"Required section is empty", name>>)
                     ELSE self
         IN  CheckRequiredSectionsPresentOnly(next, sections, Tail(required))

RECURSIVE CheckRequiredSections(_, _, _)
CheckRequiredSections(self, sections, required) ==
    IF required = <<>> THEN self
    ELSE LET name == Head(required)
             next == IF ~HasKey(sections, name)
                     THEN AddError(self, <<"Missing required section", name>>)
                     ELSE IF strip(Lookup(sections, name)) = <<>>
                     THEN AddError(self, <<"Required section is empty", name>>)
                     ELSE self
         IN  CheckRequiredSections(next, sections, Tail(required))

RECURSIVE WarnUnknownSections(_, _, _, _)
WarnUnknownSections(self, tdr_type, names, known) ==
    IF names = <<>> THEN self
    ELSE WarnUnknownSections(
             IF Head(names) \notin known
             THEN AddWarning(self, <<"Unknown section", tdr_type, Head(names)>>)
             ELSE self,
             tdr_type, Tail(names), known)

(* unknown sections reported in either mode *)
ValidateSectionsAlwaysStrict(self, value, sections) ==
    IF self.fault # "" THEN self
    ELSE IF value.t # "str" THEN Raise(self, "AttributeError")
    ELSE LET tdr_type == upper(value.v)
         IN  IF tdr_type \notin TDR_TYPES THEN self
             ELSE WarnUnknownSections(
                      CheckRequiredSections(self, sections, required_sections(tdr_type)),
                      tdr_type, Keys(sections),
                      Range(required_sections(tdr_type))
                          \cup Range(optional_sections(tdr_type)))

_validate_sections(self, value, sections) ==
    IF self.fault # "" THEN self
    ELSE IF value.t # "str" THEN Raise(self, "AttributeError")
    ELSE LET tdr_type == upper(value.v)
         IN  IF tdr_type \notin TDR_TYPES THEN self
             ELSE LET s1 == CheckRequiredSections(self, sections, required_sections(tdr_type))
                      known == Range(required_sections(tdr_type))
                                   \cup Range(optional_sections(tdr_type))
                  IN  IF self.strict_mode
                      THEN WarnUnknownSections(s1, tdr_type, Keys(sections), known)
                      ELSE s1

-----------------------------------------------------------------------------
(* _validate_cross_references *)

(* the words of three upper-case letters *)
UpperCase3 == TDR_TYPES \cup {"XYZ", "ABC"}

(* re.findall(r'\b([A-Z]{3})-(\d+)\b', content), in order *)
RefMatch(w) == w.pre \in UpperCase3 /\ w.num # ""

references(content) == SelectSeq(WordsOf(content), RefMatch)

(* one warning for each distinct token *)
RECURSIVE WarnUnknownReferencesOnce(_, _)
WarnUnknownReferencesOnce(self, refs) ==
    IF refs = <<>> THEN self
    ELSE WarnUnknownReferencesOnce(
             IF Head(refs).pre \notin TDR_TYPES
                /\ \A i \in DOMAIN self.warnings :
                       self.warnings[i] # <<"Reference to unknown TDR type",
                                            Head(refs).pre, Head(refs).num>>
             THEN AddWarning(self, <<"Reference to unknown TDR type",
                                     Head(refs).pre, Head(refs).num>>)
             ELSE self,
             Tail(refs))

RECURSIVE WarnUnknownReferences(_, _)
WarnUnknownReferences(self, refs) ==
    IF refs = <<>> THEN self
    ELSE WarnUnknownReferences(
             IF Head(refs).pre \notin TDR_TYPES
             THEN AddWarning(self, <<"Reference to unknown TDR type",
                                     Head(refs).pre, Head(refs).num>>)
             ELSE self,
             Tail(refs))

_validate_cross_references(self, content) ==
    IF self.fault # "" THEN self
    ELSE WarnUnknownReferences(self, references(content))

-----------------------------------------------------------------------------
(* _validate_ai_context *)

CheckSummary(self, ai_context) ==
    IF ~HasKey(ai_context.sub, "summary") THEN self
    ELSE LET summary == Lookup(ai_context.sub, "summary")
         IN  IF summary.t # "str" \/ Len(summary.v) < MinSummaryLen
             THEN AddWarning(self, <<"AI context summary should be a descriptive string">>)
             ELSE self

CheckKeywords(self, ai_context) ==
    IF HasKey(ai_context.sub, "keywords") /\ Lookup(ai_context.sub, "keywords").t # "list"
    THEN AddWarning(self, <<"AI context keywords should be a list">>)
    ELSE self

CheckComplexityLevel(self, ai_context) ==
    IF ~HasKey(ai_context.sub, "complexity-level") THEN self
    ELSE LET level == Lookup(ai_context.sub, "complexity-level")
         IN  IF ~(level.t = "str" /\ level.v \in valid_levels)
             THEN AddWarning(self, <<"AI context complexity-level should be one of the valid levels">>)
             ELSE self

(* a value that is no mapping drawing a warning *)
ValidateAiContextWarningsOnly(self, frontmatter) ==
    IF self.fault # "" \/ ~In("ai-context", frontmatter) THEN self
    ELSE IF GetRaises(frontmatter) THEN Raise(self, "TypeError")
    ELSE LET ai_context == Get(frontmatter, "ai-context")
         IN  IF ai_context.t # "map"
             THEN AddWarning(self, <<"ai-context must be a dictionary">>)
             ELSE CheckComplexityLevel(CheckKeywords(CheckSummary(self, ai_context),
                                                     ai_context), ai_context)

_validate_ai_context(self, frontmatter) ==
    IF self.fault # "" \/ ~In("ai-context", frontmatter) THEN self
    ELSE IF GetRaises(frontmatter) THEN Raise(self, "TypeError")
    ELSE LET ai_context == Get(frontmatter, "ai-context")
         IN  IF ai_context.t # "map"
             THEN AddError(self, <<"ai-context must be a dictionary">>)
             ELSE CheckComplexityLevel(CheckKeywords(CheckSummary(self, ai_context),
                                                     ai_context), ai_context)

-----------------------------------------------------------------------------
(* Results *)

(* valid computed from both lists *)
CreateResultCountingWarnings(self, file_path, frontmatter, sections) ==
    [file     |-> file_path,
     valid    |-> Len(self.errors) = 0 /\ Len(self.warnings) = 0,
     errors   |-> self.errors,
     warnings |-> self.warnings,
     metadata |-> [frontmatter    |-> frontmatter,
                   section_count  |-> Len(sections),
                   sections       |-> Keys(sections),
                   has_ai_context |-> IF Truthy(frontmatter)
                                      THEN In("ai-context", frontmatter) ELSE FALSE]]

_create_result(self, file_path, frontmatter, sections) ==
    [file     |-> file_path,
     valid    |-> Len(self.errors) = 0,
     errors   |-> self.errors,
     warnings |-> self.warnings,
     metadata |-> [frontmatter    |-> frontmatter,
                   section_count  |-> Len(sections),
                   sections       |-> Keys(sections),
                   has_ai_context |-> IF Truthy(frontmatter)
                                      THEN In("ai-context", frontmatter) ELSE FALSE]]

_create_error_result(error_message) ==
    [file     |-> "unknown",
     valid    |-> FALSE,
     errors   |-> <<error_message>>,
     warnings |-> <<>>,
     metadata |-> <<>>]

-----------------------------------------------------------------------------
(* Files.  fs maps a path to [exists, utf8, content]: whether the file is
   there, whether its bytes decode as UTF-8, and its lines. *)

FilePaths == {"docs/a.md", "docs/b.md", "docs/notes.txt", "docs/sub/c.md"}

DirPaths == {"docs", "docs/sub"}

File(content) == [exists |-> TRUE, utf8 |-> TRUE, content |-> content]

Absent == [exists |-> FALSE, utf8 |-> TRUE, content |-> <<>>]

(* Path.parent and Path.suffix *)
parent(p) == IF p = "docs/sub/c.md" THEN "docs/sub" ELSE "docs"

suffix(p) == IF p = "docs/notes.txt" THEN ".txt" ELSE ".md"

(* the position of a path in sorted order *)
SortKey(p) ==
    CASE p = "docs/a.md" -> 1
      [] p = "docs/b.md" -> 2
      [] p = "docs/notes.txt" -> 3
      [] p = "docs/sub/c.md" -> 4

(* Outcome of a call: what it returned, or the exception that left it *)
Returned(value) == [kind |-> "returned", value |-> value]

Raised(exc) == [kind |-> "raised", value |-> exc]

-----------------------------------------------------------------------------
(* validate_file: [self, out] *)

(* the lists of the previous call kept *)
KeepDiagnostics(self) == self

ResetDiagnostics(self) == [self EXCEPT !.errors = <<>>, !.warnings = <<>>]

(* the sections of the body reported although no header was recovered *)
MissingFrontmatterWithSections(self, file_path, frontmatter, markdown_content) ==
    LET s1 == AddError(self, <<"Missing or invalid YAML frontmatter">>)
    IN  [self |-> s1,
         out  |-> Returned(_create_result(s1, file_path, frontmatter,
                                          _parse_sections(markdown_content)))]

(* `if not frontmatter:` *)
MissingFrontmatter(self, file_path, frontmatter, markdown_content) ==
    LET s1 == AddError(self, <<"Missing or invalid YAML frontmatter">>)
    IN  [self |-> s1, out |-> Returned(_create_result(s1, file_path, frontmatter, <<>>))]

ValidateContent(self, file_path, content) ==
    LET parsed      == _parse_frontmatter(self, content)
        frontmatter == parsed.frontmatter
    IN  IF ~Truthy(frontmatter)
        THEN MissingFrontmatter(parsed.self, file_path, frontmatter, parsed.markdown_content)
        ELSE LET s2       == _validate_frontmatter(parsed.self, frontmatter)
                 sections == _parse_sections(parsed.markdown_content)
                 s3       == IF s2.fault = "" /\ In("type", frontmatter)
                             THEN IF GetRaises(frontmatter) THEN Raise(s2, "TypeError")
                                  ELSE _validate_sections(s2, Get(frontmatter, "type"), sections)
                             ELSE s2
                 s4       == _validate_cross_references(s3, parsed.markdown_content)
                 s5       == _validate_ai_context(s4, frontmatter)
             IN  IF s5.fault # ""
                 THEN [self |-> [s5 EXCEPT !.fault = ""], out |-> Raised(s5.fault)]
                 ELSE [self |-> s5,
                       out  |-> Returned(_create_result(s5, file_path, frontmatter, sections))]

validate_file(self, files, file_path) ==
    LET s0 == ResetDiagnostics(self)
    IN  IF ~files[file_path].exists
        THEN [self |-> s0, out |-> Returned(_create_error_result(<<"File not found", file_path>>))]
        ELSE IF ~files[file_path].utf8
        THEN [self |-> s0,
              out  |-> Returned(_create_error_result(<<"Invalid UTF-8 encoding", file_path>>))]
        ELSE ValidateContent(s0, file_path, files[file_path].content)

-----------------------------------------------------------------------------
(* validate_directory: [self, out] *)

(* dir_path.glob("*.md"): the files of the directory itself that end in .md *)
glob_md(files, dir_path) ==
    {p \in DOMAIN files : files[p].exists /\ parent(p) = dir_path /\ suffix(p) = ".md"}

RECURSIVE sorted(_)
sorted(paths) ==
    IF paths = {} THEN <<>>
    ELSE LET first == CHOOSE p \in paths : \A q \in paths : SortKey(p) <= SortKey(q)
         IN  <<first>> \o sorted(paths \ {first})

(* the loop: a call that raises leaves the loop with the results lost *)
RECURSIVE ValidateEach(_, _, _, _)
ValidateEach(self, files, paths, calls) ==
    IF paths = <<>>
    THEN [self  |-> self,
          out   |-> Returned([i \in DOMAIN calls |-> calls[i].out.value]),
          calls |-> calls]
    ELSE CHOOSE done \in
             {IF r.out.kind = "raised"
              THEN [self |-> r.self, out |-> r.out, calls |-> Append(calls, r)]
              ELSE ValidateEach(r.self, files, Tail(paths), Append(calls, r)) :
                  r \in {validate_file(self, files, Head(paths))}} : TRUE

(* a directory without .md files giving the empty list *)
ValidateDirectoryEmptyList(self, files, dir_path) ==
    IF dir_path \notin DirPaths
    THEN [self  |-> self,
          out   |-> Returned(<<_create_error_result(<<"Directory not found", dir_path>>)>>),
          calls |-> <<>>]
    ELSE ValidateEach(self, files, sorted(glob_md(files, dir_path)), <<>>)

validate_directory(self, files, dir_path) ==
    IF dir_path \notin DirPaths
    THEN [self  |-> self,
          out   |-> Returned(<<_create_error_result(<<"Directory not found", dir_path>>)>>),
          calls |-> <<>>]
    ELSE LET tdr_files == glob_md(files, dir_path)
         IN  IF tdr_files = {}
             THEN [self  |-> self,
                   out   |-> Returned(<<_create_error_result(<<"No .md files found in", dir_path>>)>>),
                   calls |-> <<>>]
             ELSE ValidateEach(self, files, sorted(tdr_files), <<>>)

-----------------------------------------------------------------------------
(* The lists as objects.  h = [lists, errors, warnings]: lists[i] is the
   content of list object i, errors and warnings are the objects that
   self.errors and self.warnings refer to.  A result refers to its two lists
   the same way; `was` is the result as it stood when it was returned. *)

(* __init__: self.errors = []; self.warnings = [] *)
InitialLists == [lists |-> <<<<>>, <<>>>>, errors |-> 1, warnings |-> 2]

(* the two lists emptied in place *)
ClearLists(h) == [h EXCEPT !.lists[h.errors] = <<>>, !.lists[h.warnings] = <<>>]

(* validate_file: self.errors = []; self.warnings = [] binds two new lists *)
ResetLists(h) ==
    [lists    |-> h.lists \o <<<<>>, <<>>>>,
     errors   |-> Len(h.lists) + 1,
     warnings |-> Len(h.lists) + 2]

(* the appends of one call, made in place to the lists of the instance *)
AppendAll(h, self) ==
    [h EXCEPT !.lists[h.errors] = self.errors, !.lists[h.warnings] = self.warnings]

(* the result referring to the lists of the instance themselves *)
AliasLists(h, result) ==
    [heap    |-> h,
     results |-> <<[errors |-> h.errors, warnings |-> h.warnings, was |-> result]>>]

(* _create_result: self.errors.copy(), self.warnings.copy() *)
CopyLists(h, result) ==
    [heap    |-> [h EXCEPT !.lists = h.lists \o <<h.lists[h.errors], h.lists[h.warnings]>>],
     results |-> <<[errors   |-> Len(h.lists) + 1,
                    warnings |-> Len(h.lists) + 2,
                    was      |-> result]>>]

(* _create_error_result: 'errors': [error_message], 'warnings': [] *)
NewLists(h, result) ==
    [heap    |-> [h EXCEPT !.lists = h.lists \o <<result.errors, <<>>>>],
     results |-> <<[errors   |-> Len(h.lists) + 1,
                    warnings |-> Len(h.lists) + 2,
                    was      |-> result]>>]

(* validate_file on the objects; r is what the call comes to by value *)
HeapValidateFile(h, r, files, file_path) ==
    CHOOSE done \in
        {IF r.out.kind = "raised" THEN [heap |-> h1, results |-> <<>>]
         ELSE IF ~files[file_path].exists \/ ~files[file_path].utf8
         THEN NewLists(h1, r.out.value)
         ELSE CopyLists(h1, r.out.value) :
             h1 \in {AppendAll(ResetLists(h), r.self)}} : TRUE

(* the loop of validate_directory over the calls it made, calls[i] on
   paths[i]; a call that raises leaves no result *)
RECURSIVE HeapValidateEach(_, _, _, _, _)
HeapValidateEach(h, files, paths, calls, results) ==
    IF calls = <<>> THEN [heap |-> h, results |-> results]
    ELSE CHOOSE done \in
             {IF Head(calls).out.kind = "raised" THEN one
              ELSE HeapValidateEach(one.heap, files, Tail(paths), Tail(calls),
                                    results \o one.results) :
                  one \in {HeapValidateFile(h, Head(calls), files, Head(paths))}} : TRUE

(* validate_directory on the objects; r is what the call comes to by value *)
HeapValidateDirectory(h, r, files, dir_path) ==
    IF dir_path \notin DirPaths
    THEN NewLists(h, _create_error_result(<<"Directory not found", dir_path>>))
    ELSE IF glob_md(files, dir_path) = {}
    THEN NewLists(h, _create_error_result(<<"No .md files found in", dir_path>>))
    ELSE HeapValidateEach(h, files, sorted(glob_md(files, dir_path)), r.calls, <<>>)

(* the last n elements *)
Latest(seq, n) == IF Len(seq) <= n THEN seq ELSE SubSeq(seq, Len(seq) - n + 1, Len(seq))

(* seq without the later occurrences of its elements *)
RECURSIVE Distinct(_)
Distinct(seq) ==
    IF seq = <<>> THEN <<>>
    ELSE <<Head(seq)>> \o Distinct(SelectSeq(Tail(seq), LAMBDA x : x # Head(seq)))

RECURSIVE ListsOf(_)
ListsOf(results) ==
    IF results = <<>> THEN <<>>
    ELSE <<Head(results).errors, Head(results).warnings>> \o ListsOf(Tail(results))

(* the objects that the instance or a result in hl refers to, renumbered in
   that order; the others are gone *)
Collect(h, hl) ==
    CHOOSE done \in
        {[heap |-> [lists    |-> [i \in DOMAIN live |-> h.lists[live[i]]],
                    errors   |-> CHOOSE i \in DOMAIN live : live[i] = h.errors,
                    warnings |-> CHOOSE i \in DOMAIN live : live[i] = h.warnings],
          held |-> [k \in DOMAIN hl |->
                       [hl[k] EXCEPT
                            !.errors = CHOOSE i \in DOMAIN live : live[i] = hl[k].errors,
                            !.warnings = CHOOSE i \in DOMAIN live : live[i] = hl[k].warnings]]] :
             live \in {Distinct(<<h.errors, h.warnings>> \o ListsOf(hl))}} : TRUE

-----------------------------------------------------------------------------
(* The documents.  BaseDocument(t) is a complete record of type t; the
   editing steps below change one thing at a time. *)

MaxEdits == 2

Prose == Text(<<Word("text")>>)

WhitespaceLine == Line("t", "  ", Null, 0, <<>>)

RECURSIVE BaseSections(_, _)
BaseSections(names, i) ==
    IF i > Len(names) THEN <<>>
    ELSE <<H(IF i % 2 = 1 THEN 2 ELSE 3, names[i]), EmptyLine, Prose>>
             \o BaseSections(names, i + 1)

BaseDocument(t) ==
    <<Dash,
      KV("type", Str(t)),
      KV("title", Str("Use PostgreSQL")),
      KV("status", Str("accepted")),
      KV("date", Val("date", "2025-01-15")),
      KV("decision_owner", Str("alice")),
      Dash,
      H(1, "Use PostgreSQL"),
      Text(<<Word("follows"), Ref("MDD", "1")>>)>>
        \o BaseSections(required_sections(t), 1)
        \o <<EmptyLine>>

IsField(l, key) == l.k = "kv" /\ l.n = 0 /\ l.key = key

HasField(c, key) == \E i \in DOMAIN c : IsField(c[i], key)

SetField(c, key, val) ==
    [i \in DOMAIN c |-> IF IsField(c[i], key) THEN KV(key, val) ELSE c[i]]

RemoveField(c, key) == SelectSeq(c, LAMBDA l : ~IsField(l, key))

InsertAfter(c, i, ls) == SubSeq(c, 1, i) \o ls \o SubSeq(c, i + 1, Len(c))

LastFieldLine(c) ==
    CHOOSE i \in DOMAIN c : c[i].k = "kv" /\ \A j \in DOMAIN c : c[j].k = "kv" => j <= i

AddFields(c, ls) == InsertAfter(c, LastFieldLine(c), ls)

(* the header with the lines ls in the place of its fields *)
ReplaceFields(c, ls) ==
    LET first == CHOOSE i \in DOMAIN c : c[i].k = "kv" /\ \A j \in DOMAIN c : c[j].k = "kv" => i <= j
    IN  SelectSeq(InsertAfter(c, first - 1, ls), LAMBDA l : l.k # "kv")

RECURSIVE RemoveSection(_, _, _)
RemoveSection(c, name, inside) ==
    IF c = <<>> THEN <<>>
    ELSE LET l == Head(c)
         IN  IF header_match(l)
             THEN IF l.key = name THEN RemoveSection(Tail(c), name, TRUE)
                  ELSE <<l>> \o RemoveSection(Tail(c), name, FALSE)
             ELSE IF inside THEN RemoveSection(Tail(c), name, TRUE)
                  ELSE <<l>> \o RemoveSection(Tail(c), name, FALSE)

RECURSIVE BlankSection(_, _, _)
BlankSection(c, name, inside) ==
    IF c = <<>> THEN <<>>
    ELSE LET l == Head(c)
         IN  IF header_match(l)
             THEN IF l.key = name THEN <<l, WhitespaceLine>> \o BlankSection(Tail(c), name, TRUE)
                  ELSE <<l>> \o BlankSection(Tail(c), name, FALSE)
             ELSE IF inside THEN BlankSection(Tail(c), name, TRUE)
                  ELSE <<l>> \o BlankSection(Tail(c), name, FALSE)

Headings(c) == {c[i].key : i \in {j \in DOMAIN c : header_match(c[j])}}

(* the values an author may give a field that is there *)
FieldValues(key) ==
    CASE key = "type"   -> {Str("adr"), Str("XYZ"), Int("42"), Null}
      [] key = "status" -> {Str("Accepted"), Str("Bogus"), Null}
      [] key = "date"   -> {Str("15/01/2025"), Str("2025-01-15T10:30:00")}
      [] key = "decision_owner" -> {Str("  "), Int("42")}
      [] OTHER -> {}

(* the optional fields an author may add, each with its lines *)
OptionalFieldLines ==
    {<<KV("tdr_id", Int("7"))>>,
     <<KV("tdr_id", List(<<Int("7")>>))>>,
     <<KV("supersedes", Str("ADR-001"))>>,
     <<KV("supersedes", List(<<Str("ADR-001")>>))>>,
     <<KV("reviewers", List(<<Str("bob")>>))>>,
     <<KV("reviewers", Str("bob"))>>,
     <<KV("ai-context", Str("none"))>>,
     <<KV("ai-context", Nest)>>,
     <<KV("ai-context", List(<<Str("db")>>))>>,
     <<KV("ai-context", Nest), KVin("summary", Str("too short."))>>,
     <<KV("ai-context", Nest), KVin("summary", Str("a summary of 25 letters.")),
       KVin("keywords", List(<<Str("db")>>)), KVin("complexity-level", Str("low"))>>,
     <<KV("ai-context", Nest), KVin("keywords", Str("db")),
       KVin("complexity-level", Str("extreme"))>>}

(* what an author may leave in the header in the place of its fields *)
HeaderReplacements ==
    {<<>>,
     <<Text(<<Word("draft")>>)>>,
     <<Text(<<Word("type"), Word("ADR")>>)>>,
     <<Text(<<Word("42")>>)>>,
     <<Item(Str("notes"))>>}

(* Context is required by every type; Assumptions is optional or unknown *)
AppendedSections ==
    {<<H(2, "Notes"), Prose>>,
     <<H(3, "Appendix"), Prose>>,
     <<H(2, "Assumptions"), Prose>>,
     <<H(2, "Context")>>,
     <<H(2, "Context"), Text(<<Word("later"), Word("text")>>)>>}

(* xyz-1 is no reference: the pattern wants upper-case letters *)
AppendedLines ==
    {Text(<<Word("see"), Ref("XYZ", "007")>>),
     Text(<<Word("see"), Ref("ADR", "007")>>),
     Text(<<Ref("xyz", "1"), Ref("ABC", "12"), Ref("ABC", "12")>>)}

-----------------------------------------------------------------------------
(* State machine.  An author edits docs/a.md (at most MaxEdits changes);
   the validator, constructed with either strict_mode, is then called. *)

Edited == "docs/a.md"

Doc == fs[Edited].content

Self == [strict_mode |-> strict_mode, errors |-> errors, warnings |-> warnings, fault |-> ""]

NoCall == [op |-> "none", arg |-> "", out |-> Returned(<<>>)]

NoDiagnostics == [errors |-> <<>>, warnings |-> <<>>]

(* __init__, and the files as they are before the author's changes *)
Init ==
    /\ strict_mode \in BOOLEAN
    /\ errors = <<>>
    /\ warnings = <<>>
    /\ \E t \in TDR_TYPES :
           fs = [p \in {Edited, "docs/b.md"} |->
                    IF p = Edited THEN File(BaseDocument(t)) ELSE Absent]
    /\ pc = "editing"
    /\ edits = 0
    /\ last = NoCall
    /\ before = NoDiagnostics
    /\ heap = InitialLists
    /\ held = <<>>
    /\ window = 0

CanEdit == pc = "editing" /\ edits < MaxEdits

Rewrite(content) ==
    /\ fs[Edited].content # content
    /\ fs' = [fs EXCEPT ![Edited].content = content]
    /\ edits' = edits + 1
    /\ UNCHANGED <<strict_mode, errors, warnings, pc, last, before, heap, held, window>>

RemoveRequiredField ==
    /\ CanEdit
    /\ \E key \in Range(required_fields) :
           /\ HasField(Doc, key)
           /\ Rewrite(RemoveField(Doc, key))

ChangeField ==
    /\ CanEdit
    /\ \E key \in Range(required_fields) : \E val \in FieldValues(key) :
           /\ HasField(Doc, key)
           /\ Rewrite(SetField(Doc, key, val))

AddOptionalField ==
    /\ CanEdit
    /\ \E ls \in OptionalFieldLines :
           /\ \E i \in DOMAIN Doc : Doc[i].k = "kv"
           /\ ~HasField(Doc, ls[1].key)
           /\ Rewrite(AddFields(Doc, ls))

ReplaceHeader ==
    /\ CanEdit
    /\ \E ls \in HeaderReplacements :
           /\ \E i \in DOMAIN Doc : Doc[i].k = "kv"
           /\ Rewrite(ReplaceFields(Doc, ls))

DropOpeningDelimiter ==
    /\ CanEdit
    /\ StartsWithDelimiter(Doc)
    /\ Rewrite(Tail(Doc))

DropClosingDelimiter ==
    /\ CanEdit
    /\ StartsWithDelimiter(Doc)
    /\ FindClosing(Doc) # 0
    /\ Rewrite(SubSeq(Doc, 1, FindClosing(Doc) - 1)
                   \o SubSeq(Doc, FindClosing(Doc) + 1, Len(Doc)))

InsertBadYaml ==
    /\ CanEdit
    /\ StartsWithDelimiter(Doc)
    /\ Rewrite(InsertAfter(Doc, 1, <<BadYaml>>))

CorruptEncoding ==
    /\ CanEdit
    /\ fs[Edited].utf8
    /\ fs' = [fs EXCEPT ![Edited].utf8 = FALSE]
    /\ edits' = edits + 1
    /\ UNCHANGED <<strict_mode, errors, warnings, pc, last, before, heap, held, window>>

DeleteSection ==
    /\ CanEdit
    /\ \E name \in Headings(Doc) : Rewrite(RemoveSection(Doc, name, FALSE))

EmptySection ==
    /\ CanEdit
    /\ \E name \in Headings(Doc) : Rewrite(BlankSection(Doc, name, FALSE))

AppendSection ==
    /\ CanEdit
    /\ \E ls \in AppendedSections : Rewrite(Doc \o ls)

AppendLine ==
    /\ CanEdit
    /\ \E l \in AppendedLines : Rewrite(Append(Doc, l))

(* r is the outcome of the call by value, hr its outcome on the objects; the
   caller holds on to the latest `window` results *)
Call(op, arg, r, hr) ==
    /\ errors' = r.self.errors
    /\ warnings' = r.self.warnings
    /\ last' = [op |-> op, arg |-> arg, out |-> r.out]
    /\ before' = [errors |-> errors, warnings |-> warnings]
    /\ pc' = "validating"
    /\ \E hl \in {Latest(held \o hr.results, window)} :
           \E c \in {Collect(hr.heap, hl)} :
               /\ heap' = c.heap
               /\ held' = c.held
    /\ UNCHANGED <<strict_mode, fs, edits, window>>

ValidateFile ==
    \E file_path \in DOMAIN fs :
        \E r \in {validate_file(Self, fs, file_path)} :
            \E hr \in {HeapValidateFile(heap, r, fs, file_path)} :
                Call("validate_file", file_path, r, hr)

ValidateDirectory ==
    \E dir_path \in DirPaths \cup {"nodir", Edited} :
        \E r \in {validate_directory(Self, fs, dir_path)} :
            \E hr \in {HeapValidateDirectory(heap, r, fs, dir_path)} :
                Call("validate_directory", dir_path, r, hr)

Edit ==
    \/ RemoveRequiredField
    \/ ChangeField
    \/ AddOptionalField
    \/ ReplaceHeader
    \/ DropOpeningDelimiter
    \/ DropClosingDelimiter
    \/ InsertBadYaml
    \/ CorruptEncoding
    \/ DeleteSection
    \/ EmptySection
    \/ AppendSection
    \/ AppendLine

Next == Edit \/ ValidateFile

Spec == Init /\ [][Next]_vars

-----------------------------------------------------------------------------
(* The directory: every file is one of a few documents or is not there, and
   the validator is called on files and on directories. *)

ValidDocument == BaseDocument("ADR")

(* a document that draws an error and a warning *)
FaultyDocument ==
    RemoveSection(ValidDocument, "Decision", FALSE) \o <<Text(<<Word("see"), Ref("ABC", "12")>>)>>

SampleDocuments ==
    {File(ValidDocument),
     File(Tail(ValidDocument)),
     File(SelectSeq(ValidDocument, LAMBDA l : l.k # "kv")),
     File(InsertAfter(ValidDocument, 1, <<BadYaml>>)),
     File(SetField(ValidDocument, "type", Int("42"))),
     File(SetField(ValidDocument, "status", Null)),
     File(ReplaceFields(ValidDocument, <<Text(<<Word("42")>>)>>)),
     File(ValidDocument \o <<H(2, "Notes"), Text(<<Word("see"), Ref("XYZ", "007")>>)>>),
     File(FaultyDocument),
     [File(ValidDocument) EXCEPT !.utf8 = FALSE]}

InitDir ==
    /\ strict_mode \in BOOLEAN
    /\ errors = <<>>
    /\ warnings = <<>>
    /\ fs \in [FilePaths -> SampleDocuments \cup {Absent}]
    /\ \A p \in {"docs/notes.txt", "docs/sub/c.md"} :
           fs[p] \in {Absent, File(FaultyDocument),
                      File(SetField(ValidDocument, "type", Int("42")))}
    /\ pc = "validating"
    /\ edits = 0
    /\ last = NoCall
    /\ before = NoDiagnostics
    /\ heap = InitialLists
    /\ held = <<>>
    /\ window = 0

NextDir == ValidateFile \/ ValidateDirectory

SpecDir == InitDir /\ [][NextDir]_vars

-----------------------------------------------------------------------------
(* The caller that holds on to the results: docs holds a.md and b.md, and
   the latest MaxHeld results stay in the caller's hands. *)

MaxHeld == 3

HeldDocuments ==
    {File(ValidDocument),
     File(Tail(ValidDocument)),
     File(SetField(ValidDocument, "type", Int("42"))),
     File(FaultyDocument),
     [File(ValidDocument) EXCEPT !.utf8 = FALSE],
     Absent}

InitHeap ==
    /\ strict_mode \in BOOLEAN
    /\ errors = <<>>
    /\ warnings = <<>>
    /\ \E a, b \in HeldDocuments :
           fs = [p \in FilePaths |->
                    IF p = "docs/a.md" THEN a ELSE IF p = "docs/b.md" THEN b ELSE Absent]
    /\ pc = "validating"
    /\ edits = 0
    /\ last = NoCall
    /\ before = NoDiagnostics
    /\ heap = InitialLists
    /\ held = <<>>
    /\ window = MaxHeld

SpecHeap == InitHeap /\ [][NextDir]_vars

-----------------------------------------------------------------------------
(* Properties of the results *)

FreshValidator == [strict_mode |-> strict_mode, errors |-> <<>>, warnings |-> <<>>, fault |-> ""]

(* the results the last call returned *)
LastResults ==
    IF last.out.kind # "returned" \/ last.op = "none" THEN <<>>
    ELSE IF last.op = "validate_file" THEN <<last.out.value>>
    ELSE last.out.value

SameOutcome(a, b) == a.kind = b.kind /\ a.value = b.value

(* C1: every result that validate_file or validate_directory returns, the
   error results of a missing file or directory included, has valid = TRUE
   exactly when its errors list is empty, however many warnings it holds. *)
C1_ValidIffNoErrors ==
    \A i \in DOMAIN LastResults :
        LastResults[i].valid <=> (LastResults[i].errors = <<>>)

(* a directory call that returned a valid result with warnings next to an
   invalid one *)
C1_Witness ==
    /\ last.op = "validate_directory"
    /\ \E i \in DOMAIN LastResults :
           LastResults[i].valid /\ LastResults[i].warnings # <<>>
    /\ \E i \in DOMAIN LastResults : ~LastResults[i].valid

(* C2: validate_directory on a directory that holds .md files returns one
   result per file whatever the files contain; no file makes the call raise. *)
C2_OneResultPerFile ==
    (last.op = "validate_directory" /\ last.arg \in DirPaths
        /\ glob_md(fs, last.arg) # {})
    => /\ last.out.kind = "returned"
       /\ Len(last.out.value) = Cardinality(glob_md(fs, last.arg))

(* C3: whatever the instance was called on before, validate_file returns
   for a file what a freshly constructed validator with the same strict_mode
   returns for it, and so does every call validate_directory makes. *)
C3_NoLeakBetweenFiles ==
    /\ last.op = "validate_file"
       => SameOutcome(last.out, validate_file(FreshValidator, fs, last.arg).out)
    /\ (last.op = "validate_directory" /\ last.out.kind = "returned"
            /\ last.arg \in DirPaths /\ glob_md(fs, last.arg) # {})
       => LET paths == sorted(glob_md(fs, last.arg))
          IN  /\ Len(last.out.value) = Len(paths)
              /\ \A i \in DOMAIN paths :
                     last.out.value[i]
                         = validate_file(FreshValidator, fs, paths[i]).out.value

(* a call on an instance that held errors and warnings from the call before
   returned a result with neither *)
C3_Witness ==
    /\ last.op = "validate_file"
    /\ before.errors # <<>>
    /\ before.warnings # <<>>
    /\ last.out.kind = "returned"
    /\ last.out.value.errors = <<>>
    /\ last.out.value.warnings = <<>>

-----------------------------------------------------------------------------
(* Properties of validate_file on the edited document *)

(* the last call validated the document as it stands *)
OnDoc ==
    /\ pc = "validating"
    /\ last.op = "validate_file"
    /\ last.arg = Edited
    /\ fs[Edited].exists
    /\ fs[Edited].utf8

DocReturned == OnDoc /\ last.out.kind = "returned"

Parsed == _parse_frontmatter(FreshValidator, Doc)

Decoded == Truthy(Parsed.frontmatter)

Body == Parsed.markdown_content

Count(seq, x) == Cardinality({i \in DOMAIN seq : seq[i] = x})

(* the header declares one of the five document types *)
TypeDeclared(frontmatter) ==
    /\ frontmatter.t = "map"
    /\ HasKey(frontmatter.sub, "type")
    /\ Get(frontmatter, "type").t = "str"
    /\ upper(Get(frontmatter, "type").v) \in TDR_TYPES

DeclaredType(frontmatter) == upper(Get(frontmatter, "type").v)

(* the five required fields are there and valid *)
RequiredFieldsValid(frontmatter) ==
    /\ TypeDeclared(frontmatter)
    /\ \A i \in DOMAIN required_fields : HasKey(frontmatter.sub, required_fields[i])
    /\ Get(frontmatter, "status").t = "str"
    /\ lower(Get(frontmatter, "status").v) \in VALID_STATUSES
    /\ FromIsoFormatOk(Get(frontmatter, "date"))
    /\ Get(frontmatter, "decision_owner").t = "str"
    /\ ~StripsToEmpty(Get(frontmatter, "decision_owner"))

(* the lines that follow the last heading `name`, up to the next heading *)
LastBlock(body, name) ==
    LET at   == {i \in DOMAIN body : header_match(body[i]) /\ body[i].key = name}
        from == CHOOSE i \in at : \A j \in at : j <= i
        next == {i \in DOMAIN body : i > from /\ header_match(body[i])}
        to   == IF next = {} THEN Len(body)
                ELSE (CHOOSE i \in next : \A j \in next : i <= j) - 1
    IN  SubSeq(body, from + 1, to)

AllBlank(ls) == \A i \in DOMAIN ls : IsBlank(ls[i])

(* every required section of type t is in the body, and the content that
   counts for it (the one after its last heading) is not empty *)
RequiredSectionsFilled(t, body) ==
    \A i \in DOMAIN required_sections(t) :
        /\ required_sections(t)[i] \in Headings(body)
        /\ ~AllBlank(LastBlock(body, required_sections(t)[i]))

WellFormed ==
    /\ Decoded
    /\ RequiredFieldsValid(Parsed.frontmatter)
    /\ RequiredSectionsFilled(DeclaredType(Parsed.frontmatter), Body)

AiContextIsMappingIfPresent ==
    HasKey(Parsed.frontmatter.sub, "ai-context")
        => Get(Parsed.frontmatter, "ai-context").t = "map"

(* C4 as stated: a document of any of the five types whose header decodes,
   whose five required fields are valid and whose required sections are all
   there with content is valid, with no errors, in either mode. *)
C4_WellFormedIsValid ==
    (OnDoc /\ WellFormed)
    => /\ last.out.kind = "returned"
       /\ last.out.value.valid
       /\ last.out.value.errors = <<>>

(* C4 amended: the same, for the documents whose header has no ai-context
   entry or one that is a mapping. *)
C4_WellFormedIsValidAmended ==
    (OnDoc /\ WellFormed /\ AiContextIsMappingIfPresent)
    => /\ last.out.kind = "returned"
       /\ last.out.value.valid
       /\ last.out.value.errors = <<>>

(* a well-formed document with a mixed-case status and an ai-context mapping
   was found valid *)
C4_Witness ==
    /\ DocReturned
    /\ WellFormed
    /\ Get(Parsed.frontmatter, "status").v = "Accepted"
    /\ HasKey(Parsed.frontmatter.sub, "ai-context")
    /\ last.out.value.valid

(* the content does not begin with the delimiter line, or no delimiter line
   closes the header *)
NoHeader(content) ==
    \/ ~StartsWithDelimiter(content)
    \/ \A i \in 2..Len(content) : content[i] # Dash

(* C5: for a document with no metadata header validate_file returns exactly
   one error and no warning, whatever headings, references and fields the
   text holds, and reports zero sections. *)
C5_MissingHeaderOneError ==
    (OnDoc /\ NoHeader(Doc))
    => /\ last.out.kind = "returned"
       /\ last.out.value.errors = <<<<"Missing or invalid YAML frontmatter">>>>
       /\ last.out.value.warnings = <<>>
       /\ ~last.out.value.valid
       /\ last.out.value.metadata.section_count = 0
       /\ last.out.value.metadata.sections = <<>>

(* a document without header, with headings and a reference to an unknown
   type in its text, was validated *)
C5_Witness ==
    /\ DocReturned
    /\ NoHeader(Doc)
    /\ Headings(Doc) # {}
    /\ \E i \in DOMAIN references(Doc) : references(Doc)[i].pre \notin TDR_TYPES

(* the header is delimited and its text fails to decode *)
DecodeFails(content) ==
    /\ StartsWithDelimiter(content)
    /\ FindClosing(content) # 0
    /\ ~safe_load(SubSeq(content, 2, FindClosing(content) - 1)).ok

(* C6 as stated: a header that fails to decode yields an invalid result with
   exactly one error, and nothing is raised. *)
C6_DecodeFailureOneError ==
    (OnDoc /\ DecodeFails(Doc))
    => /\ last.out.kind = "returned"
       /\ ~last.out.value.valid
       /\ Len(last.out.value.errors) = 1

(* C6 amended: it yields an invalid result with exactly two errors, the
   decode failure and then the missing-or-invalid-header error, no warning,
   and nothing is raised. *)
C6_DecodeFailureTwoErrors ==
    (OnDoc /\ DecodeFails(Doc))
    => /\ last.out.kind = "returned"
       /\ ~last.out.value.valid
       /\ last.out.value.errors = <<<<"Invalid YAML frontmatter">>,
                                    <<"Missing or invalid YAML frontmatter">>>>
       /\ last.out.value.warnings = <<>>

(* a document whose header does not decode was validated *)
C6_Witness == DocReturned /\ DecodeFails(Doc)

-----------------------------------------------------------------------------
(* Sections *)

(* what a fresh validator returns for the document with the content c *)
Validated(c) == ValidateContent(FreshValidator, Edited, c).out

(* the lines of the sections headed `name`: headings and content *)
RECURSIVE SectionLines(_, _, _)
SectionLines(c, name, inside) ==
    IF c = <<>> THEN <<>>
    ELSE LET l == Head(c)
         IN  IF header_match(l)
             THEN IF l.key = name THEN <<l>> \o SectionLines(Tail(c), name, TRUE)
                  ELSE SectionLines(Tail(c), name, FALSE)
             ELSE IF inside THEN <<l>> \o SectionLines(Tail(c), name, TRUE)
                  ELSE SectionLines(Tail(c), name, FALSE)

(* the warnings the cross-reference scan gives for the lines ls *)
ReferenceWarnings(ls) ==
    _validate_cross_references([FreshValidator EXCEPT !.warnings = <<>>], ls).warnings

(* this step removes the required section `name` from a valid document *)
RemovesRequiredSection(name) ==
    /\ pc = "editing"
    /\ edits' = edits + 1
    /\ fs[Edited].utf8
    /\ name \in Headings(Doc)
    /\ fs'[Edited].content = RemoveSection(Doc, name, FALSE)
    /\ Decoded
    /\ TypeDeclared(Parsed.frontmatter)
    /\ name \in Range(required_sections(DeclaredType(Parsed.frontmatter)))
    /\ Validated(Doc).kind = "returned"
    /\ Validated(Doc).value.valid

SectionNames == UNION {Range(required_sections(t)) : t \in TDR_TYPES}

(* C7 as stated: removing one required section from a valid document gives
   an invalid result whose only error names that section, and no other
   diagnostic changes. *)
C7_RemovedSectionOnlyChange ==
    [][\A name \in SectionNames :
          RemovesRequiredSection(name)
          => LET old == Validated(Doc).value
                 new == Validated(fs'[Edited].content)
             IN  /\ new.kind = "returned"
                 /\ ~new.value.valid
                 /\ new.value.errors = <<<<"Missing required section", name>>>>
                 /\ new.value.warnings = old.warnings]_vars

(* C7 amended: it gives an invalid result whose only error names that
   section; the warnings are those of the document before, less the
   unknown-reference warnings for the tokens in the removed section. *)
C7_RemovedSectionOneError ==
    [][\A name \in SectionNames :
          RemovesRequiredSection(name)
          => LET old == Validated(Doc).value
                 new == Validated(fs'[Edited].content)
                 gone == ReferenceWarnings(SectionLines(Doc, name, FALSE))
             IN  /\ new.kind = "returned"
                 /\ ~new.value.valid
                 /\ new.value.errors = <<<<"Missing required section", name>>>>
                 /\ \A w \in Range(old.warnings) \cup Range(new.value.warnings) :
                        Count(old.warnings, w)
                            = Count(new.value.warnings, w) + Count(gone, w)]_vars

(* a document that lacks one required section of its type, and nothing else,
   was validated after the author's changes *)
C7_Witness ==
    /\ DocReturned
    /\ edits = MaxEdits
    /\ Decoded
    /\ TypeDeclared(Parsed.frontmatter)
    /\ \E name \in Range(required_sections(DeclaredType(Parsed.frontmatter))) :
           /\ name \notin Headings(Body)
           /\ last.out.value.errors = <<<<"Missing required section", name>>>>

(* C8: with a valid declared type, each required section draws the
   "missing" error exactly when no heading of the body names it, the "empty"
   error exactly when a heading names it and the content that counts for it
   is empty or blank, and never both. *)
C8_MissingOrEmpty ==
    (DocReturned /\ Decoded /\ TypeDeclared(Parsed.frontmatter))
    => \A name \in Range(required_sections(DeclaredType(Parsed.frontmatter))) :
           LET missing == Count(last.out.value.errors, <<"Missing required section", name>>)
               empty   == Count(last.out.value.errors, <<"Required section is empty", name>>)
           IN  /\ missing = (IF name \notin Headings(Body) THEN 1 ELSE 0)
               /\ empty = (IF name \in Headings(Body) /\ AllBlank(LastBlock(Body, name))
                           THEN 1 ELSE 0)

(* a required section that holds only a whitespace line drew the "empty"
   error while another required section was missing *)
C8_Witness ==
    /\ DocReturned
    /\ Decoded
    /\ TypeDeclared(Parsed.frontmatter)
    /\ \E name \in Range(required_sections(DeclaredType(Parsed.frontmatter))) :
           /\ name \in Headings(Body)
           /\ LastBlock(Body, name) = <<WhitespaceLine>>
           /\ Count(last.out.value.errors, <<"Required section is empty", name>>) = 1
    /\ \E name \in Range(required_sections(DeclaredType(Parsed.frontmatter))) :
           Count(last.out.value.errors, <<"Missing required section", name>>) = 1

(* the headings that occur more than once in the body *)
Repeated(body) ==
    {name \in Headings(body) :
        Cardinality({i \in DOMAIN body : header_match(body[i]) /\ body[i].key = name}) > 1}

(* the body with, of every heading, only the last section left *)
RECURSIVE KeepLast(_, _)
KeepLast(body, keep) ==
    IF body = <<>> THEN <<>>
    ELSE LET l    == Head(body)
             rest == Tail(body)
         IN  IF header_match(l)
             THEN IF l.key \in Headings(rest) THEN KeepLast(rest, FALSE)
                  ELSE <<l>> \o KeepLast(rest, TRUE)
             ELSE IF keep THEN <<l>> \o KeepLast(rest, TRUE) ELSE KeepLast(rest, FALSE)

IsReferenceWarning(w) == w[1] = "Reference to unknown TDR type"

(* C9: a heading that occurs more than once is mapped to the content after
   its last occurrence and counted once, and the document draws the errors
   and section warnings of the body that holds only the last occurrences. *)
C9_LastHeadingWins ==
    (DocReturned /\ Decoded)
    => LET sections == _parse_sections(Body)
           single   == Validated(SubSeq(Doc, 1, Len(Doc) - Len(Body)) \o KeepLast(Body, TRUE)).value
       IN  /\ \A name \in Repeated(Body) :
                  /\ Lookup(sections, name) = strip(LastBlock(Body, name))
                  /\ Count(last.out.value.metadata.sections, name) = 1
           /\ last.out.value.metadata.section_count = Cardinality(Headings(Body))
           /\ last.out.value.errors = single.errors
           /\ \A w \in Range(last.out.value.warnings) \cup Range(single.warnings) :
                  ~IsReferenceWarning(w)
                      => Count(last.out.value.warnings, w) = Count(single.warnings, w)

(* a document with two Context sections, the later one with other content
   than the first, was validated *)
C9_Witness ==
    /\ DocReturned
    /\ Decoded
    /\ "Context" \in Repeated(Body)
    /\ Lookup(_parse_sections(Body), "Context") = <<Text(<<Word("later"), Word("text")>>)>>
    /\ last.out.value.valid

(* the headings of the body that the declared type lists neither as required
   nor as optional *)
UnknownHeadings ==
    IF Decoded /\ TypeDeclared(Parsed.frontmatter)
    THEN Headings(Body) \ (Range(required_sections(DeclaredType(Parsed.frontmatter)))
                              \cup Range(optional_sections(DeclaredType(Parsed.frontmatter))))
    ELSE {}

IsUnknownSectionWarning(w) == w[1] = "Unknown section"

OtherMode == [FreshValidator EXCEPT !.strict_mode = ~strict_mode]

(* C10: the same document draws the same errors and valid flag in both
   modes; outside strict mode no warning for an unknown section, in strict
   mode exactly one for each heading the declared type does not list, and
   the other warnings are the same. *)
C10_StrictAddsWarningsOnly ==
    OnDoc
    => LET other  == ValidateContent(OtherMode, Edited, Doc).out
           strict == IF strict_mode THEN last.out ELSE other
           lax    == IF strict_mode THEN other ELSE last.out
       IN  /\ strict.kind = lax.kind
           /\ strict.kind = "raised" => strict.value = lax.value
           /\ strict.kind = "returned"
              => /\ strict.value.errors = lax.value.errors
                 /\ strict.value.valid = lax.value.valid
                 /\ \A i \in DOMAIN lax.value.warnings :
                        ~IsUnknownSectionWarning(lax.value.warnings[i])
                 /\ SelectSeq(strict.value.warnings,
                              LAMBDA w : ~IsUnknownSectionWarning(w)) = lax.value.warnings
                 /\ Len(SelectSeq(strict.value.warnings, IsUnknownSectionWarning))
                        = Cardinality(UnknownHeadings)
                 /\ \A name \in UnknownHeadings :
                        Count(strict.value.warnings,
                              <<"Unknown section", DeclaredType(Parsed.frontmatter), name>>) = 1

(* in strict mode a document with two headings that its type does not list
   was validated *)
C10_Witness ==
    /\ DocReturned
    /\ strict_mode
    /\ Cardinality(UnknownHeadings) = 2
    /\ Len(SelectSeq(last.out.value.warnings, IsUnknownSectionWarning)) = 2

-----------------------------------------------------------------------------
(* Cross-references *)

(* the matched reference tokens of the body, and those of an unknown type *)
Tokens == references(Body)

UnknownTokens == {i \in DOMAIN Tokens : Tokens[i].pre \notin TDR_TYPES}

ReferenceWarning(tok) == <<"Reference to unknown TDR type", tok.pre, tok.num>>

(* the scanner run on the body by the instance as it stands *)
Scanned == _validate_cross_references(Self, Body)

(* C11: the cross-reference scan appends no error and exactly one warning
   for every occurrence of a reference token whose prefix is not one of the
   five types, none for a token of a known type, and the result of the file
   holds these warnings. *)
C11_OneWarningPerUnknownReference ==
    (DocReturned /\ Decoded)
    => /\ Scanned.errors = errors
       /\ Scanned.fault = ""
       /\ SubSeq(Scanned.warnings, 1, Len(warnings)) = warnings
       /\ Len(Scanned.warnings) = Len(warnings) + Cardinality(UnknownTokens)
       /\ \A i \in DOMAIN Tokens :
              Count(SubSeq(Scanned.warnings, Len(warnings) + 1, Len(Scanned.warnings)),
                    ReferenceWarning(Tokens[i]))
                  = IF i \in UnknownTokens
                    THEN Cardinality({j \in DOMAIN Tokens : Tokens[j] = Tokens[i]})
                    ELSE 0
       /\ Len(SelectSeq(last.out.value.warnings, IsReferenceWarning))
              = Cardinality(UnknownTokens)

(* a body that names MDD-1, xyz-1 and twice ABC-12 was validated, and the
   instance holds an error when the scanner runs *)
C11_Witness ==
    /\ DocReturned
    /\ Decoded
    /\ errors # <<>>
    /\ \E i, j \in UnknownTokens : i # j /\ Tokens[i] = Tokens[j]
    /\ \E i \in DOMAIN Tokens : Tokens[i] = Ref("MDD", "1")
    /\ Ref("xyz", "1") \in Range(WordsOf(Body))
    /\ Count(last.out.value.warnings, ReferenceWarning(Ref("ABC", "12"))) = 2

-----------------------------------------------------------------------------
(* AI context *)

IsMapping(frontmatter) == frontmatter.t = "map"

(* the AI-context validator run on the header by the instance as it stands *)
AiChecked == _validate_ai_context(Self, Parsed.frontmatter)

AiContextNotMapping ==
    /\ HasKey(Parsed.frontmatter.sub, "ai-context")
    /\ Get(Parsed.frontmatter, "ai-context").t # "map"

(* C12 as stated: whatever the header holds under ai-context, the
   AI-context validator leaves the errors list as it is. *)
C12_AiContextNeverErrors ==
    (OnDoc /\ Decoded /\ IsMapping(Parsed.frontmatter))
    => AiChecked.errors = errors

(* C12 amended: the AI-context validator leaves the errors list as it is
   unless ai-context is there and is no mapping; then it appends the one
   error "ai-context must be a dictionary" and no warning, and the result of
   the file is invalid. *)
C12_AiContextErrorOnlyIfNotMapping ==
    (OnDoc /\ Decoded /\ IsMapping(Parsed.frontmatter))
    => /\ AiChecked.fault = ""
       /\ SubSeq(AiChecked.warnings, 1, Len(warnings)) = warnings
       /\ IF AiContextNotMapping
          THEN /\ AiChecked.errors = Append(errors, <<"ai-context must be a dictionary">>)
               /\ AiChecked.warnings = warnings
               /\ last.out.kind = "returned"
                  => /\ ~last.out.value.valid
                     /\ Count(last.out.value.errors, <<"ai-context must be a dictionary">>) = 1
          ELSE /\ AiChecked.errors = errors
               /\ last.out.kind = "returned"
                  => Count(last.out.value.errors, <<"ai-context must be a dictionary">>) = 0

(* a document whose only fault is an ai-context without value was found
   invalid *)
C12_Witness ==
    /\ DocReturned
    /\ Decoded
    /\ IsMapping(Parsed.frontmatter)
    /\ HasKey(Parsed.frontmatter.sub, "ai-context")
    /\ Get(Parsed.frontmatter, "ai-context") = Null
    /\ last.out.value.errors = <<<<"ai-context must be a dictionary">>>>

-----------------------------------------------------------------------------
(* Directories *)

DirectoryCall == last.op = "validate_directory"

(* C13: validate_directory on a path that is no directory, or on a
   directory without .md files, returns one result, invalid, with the one
   error that says so and no warning, and validates no file: the diagnostics
   of the instance stay as the call before left them. *)
C13_NoFilesOneErrorResult ==
    (DirectoryCall /\ (last.arg \notin DirPaths \/ glob_md(fs, last.arg) = {}))
    => /\ last.out.kind = "returned"
       /\ Len(last.out.value) = 1
       /\ ~last.out.value[1].valid
       /\ last.out.value[1].errors
              = <<IF last.arg \in DirPaths
                  THEN <<"No .md files found in", last.arg>>
                  ELSE <<"Directory not found", last.arg>>>>
       /\ last.out.value[1].warnings = <<>>
       /\ errors = before.errors
       /\ warnings = before.warnings

(* validate_directory was called on docs, which holds notes.txt and a
   subdirectory with c.md but no .md file of its own, by an instance that
   held diagnostics of a file *)
C13_Witness ==
    /\ DirectoryCall
    /\ last.arg = "docs"
    /\ glob_md(fs, "docs") = {}
    /\ fs["docs/notes.txt"].exists
    /\ fs["docs/sub/c.md"].exists
    /\ before.errors # <<>>
    /\ last.out.kind = "returned"

(* the .md files of the directory itself, and the i-th of them by name *)
TopLevel(dir_path) == glob_md(fs, dir_path)

Nth(dir_path, i) ==
    CHOOSE p \in TopLevel(dir_path) :
        Cardinality({q \in TopLevel(dir_path) : SortKey(q) < SortKey(p)}) = i - 1

(* the i-th result is that of validating the i-th file by name *)
ResultsInNameOrder ==
    /\ Len(last.out.value) = Cardinality(TopLevel(last.arg))
    /\ \A i \in DOMAIN last.out.value :
           last.out.value[i] = validate_file(FreshValidator, fs, Nth(last.arg, i)).out.value

(* C14: validate_directory on a directory with n >= 1 .md files of its own
   returns n results, the i-th that of the i-th file in ascending order of
   name; files of subdirectories and files without the suffix give none. *)
C14_ResultsInNameOrder ==
    (DirectoryCall /\ last.arg \in DirPaths /\ TopLevel(last.arg) # {})
    => /\ last.out.kind = "returned"
       /\ ResultsInNameOrder

(* what holds of the code: the same whenever the call returns, which it does
   unless validating one of the files raises *)
ResultsInNameOrderWhenReturned ==
    (DirectoryCall /\ last.arg \in DirPaths /\ TopLevel(last.arg) # {})
    => /\ last.out.kind = "returned" => ResultsInNameOrder
       /\ last.out.kind = "raised"
          => \E p \in TopLevel(last.arg) :
                 validate_file(FreshValidator, fs, p).out.kind = "raised"

(* docs held two different .md files, notes.txt and a subdirectory with
   c.md, and validate_directory returned two results *)
OrderedDirectoryReturned ==
    /\ DirectoryCall
    /\ last.arg = "docs"
    /\ Cardinality(TopLevel("docs")) = 2
    /\ fs["docs/a.md"] # fs["docs/b.md"]
    /\ fs["docs/notes.txt"].exists
    /\ fs["docs/sub/c.md"].exists
    /\ last.out.kind = "returned"
    /\ last.out.value[1].file = "docs/a.md"
    /\ last.out.value[2].file = "docs/b.md"

-----------------------------------------------------------------------------
(* Results in the caller's hands *)

(* the lists of the instance are the ones followed by value *)
HeapAgrees ==
    /\ heap.lists[heap.errors] = errors
    /\ heap.lists[heap.warnings] = warnings
    /\ Len(held) <= window

HeldLists == ListsOf(held)

(* C15: whatever is called after a result was returned, its errors and
   warnings lists hold what they held then, and its valid flag still says
   whether the errors list is empty; no list belongs to two results or to
   both fields of one, and none is a list of the instance. *)
C15_ResultsImmutable ==
    /\ \A i \in DOMAIN held :
           /\ heap.lists[held[i].errors] = held[i].was.errors
           /\ heap.lists[held[i].warnings] = held[i].was.warnings
           /\ held[i].was.valid <=> (heap.lists[held[i].errors] = <<>>)
    /\ \A i, j \in DOMAIN HeldLists : i # j => HeldLists[i] # HeldLists[j]
    /\ \A i \in DOMAIN HeldLists : HeldLists[i] \notin {heap.errors, heap.warnings}

(* the caller holds a result with errors and warnings from an earlier call
   and the two results of a later batch, and the instance's lists hold other
   diagnostics by now *)
C15_Witness ==
    /\ Len(held) = 3
    /\ held[1].was.errors # <<>>
    /\ held[1].was.warnings # <<>>
    /\ last.op = "validate_directory"
    /\ last.out.kind = "returned"
    /\ Len(last.out.value) = 2
    /\ held[3].was = last.out.value[2]
    /\ errors # held[1].was.errors
    /\ warnings # held[1].was.warnings

-----------------------------------------------------------------------------
(* Field checks *)

(* each check of the field validator run alone by a fresh validator, in the
   order of the code *)
ChecksAlone(frontmatter) ==
    <<CheckRequiredFields(FreshValidator, frontmatter, required_fields),
      CheckType(FreshValidator, frontmatter),
      CheckStatus(FreshValidator, frontmatter),
      CheckDate(FreshValidator, frontmatter),
      CheckDecisionOwner(FreshValidator, frontmatter),
      CheckOptionalField(FreshValidator, frontmatter, "tdr_id"),
      CheckOptionalField(FreshValidator, frontmatter, "supersedes"),
      CheckReviewers(FreshValidator, frontmatter)>>

RECURSIVE ErrorsOf(_)
ErrorsOf(checks) ==
    IF checks = <<>> THEN <<>> ELSE Head(checks).errors \o ErrorsOf(Tail(checks))

RECURSIVE WarningsOf(_)
WarningsOf(checks) ==
    IF checks = <<>> THEN <<>> ELSE Head(checks).warnings \o WarningsOf(Tail(checks))

FieldsChecked == _validate_frontmatter(FreshValidator, Parsed.frontmatter)

(* C16: for every header that decodes to a mapping, the field validator
   appends the diagnostics of all its checks together: what each check
   reports alone, none suppressed by the failure of another. *)
C16_FieldChecksCumulative ==
    (OnDoc /\ Decoded /\ IsMapping(Parsed.frontmatter))
    => /\ FieldsChecked.errors = ErrorsOf(ChecksAlone(Parsed.frontmatter))
       /\ FieldsChecked.warnings = WarningsOf(ChecksAlone(Parsed.frontmatter))

(* what holds of the code: the same unless the type or the status is there
   and is no string; then the field validator raises *)
FieldChecksCumulativeUnlessRaised ==
    (OnDoc /\ Decoded /\ IsMapping(Parsed.frontmatter))
    => /\ FieldsChecked.fault # ""
          <=> \E key \in {"type", "status"} :
                  /\ HasKey(Parsed.frontmatter.sub, key)
                  /\ Get(Parsed.frontmatter, key).t # "str"
       /\ FieldsChecked.fault = ""
          => /\ FieldsChecked.errors = ErrorsOf(ChecksAlone(Parsed.frontmatter))
             /\ FieldsChecked.warnings = WarningsOf(ChecksAlone(Parsed.frontmatter))

(* a header with two faults in different checks was validated and both were
   reported *)
TwoFieldFaultsReported ==
    /\ DocReturned
    /\ Decoded
    /\ IsMapping(Parsed.frontmatter)
    /\ Cardinality({i \in DOMAIN ChecksAlone(Parsed.frontmatter) :
                       ChecksAlone(Parsed.frontmatter)[i].errors # <<>>
                       \/ ChecksAlone(Parsed.frontmatter)[i].warnings # <<>>}) = 2
    /\ Len(last.out.value.errors) + Len(last.out.value.warnings) = 2

-----------------------------------------------------------------------------
(* tdr_id and supersedes *)

FieldWarning(field) == <<"Field should be numeric or string", field>>

(* the field is there and its value is neither a number nor a string *)
NotNumberOrString(frontmatter, field) ==
    /\ HasKey(frontmatter.sub, field)
    /\ Get(frontmatter, field).t \notin {"int", "str"}

(* no error names the field *)
NoErrorAbout(field) ==
    \A i \in DOMAIN FieldsChecked.errors :
        \A j \in DOMAIN FieldsChecked.errors[i] : FieldsChecked.errors[i][j] # field

(* C17: for tdr_id and for supersedes, the field validator appends one
   warning for the field, and no error, when the field is there with a value
   that is neither a number nor a string (a list, a mapping), and nothing
   when the field is absent or holds a number or a string. *)
C17_OptionalFieldWarning ==
    (OnDoc /\ Decoded /\ IsMapping(Parsed.frontmatter))
    => \A field \in {"tdr_id", "supersedes"} :
           /\ NoErrorAbout(field)
           /\ Count(FieldsChecked.warnings, FieldWarning(field))
                  = IF NotNumberOrString(Parsed.frontmatter, field) THEN 1 ELSE 0

(* what holds of the code: the warning is appended for supersedes, and never
   for tdr_id, unless the type or status check raised before *)
SupersedesWarnsTdrIdNever ==
    (OnDoc /\ Decoded /\ IsMapping(Parsed.frontmatter) /\ FieldsChecked.fault = "")
    => /\ NoErrorAbout("tdr_id")
       /\ NoErrorAbout("supersedes")
       /\ Count(FieldsChecked.warnings, FieldWarning("tdr_id")) = 0
       /\ Count(FieldsChecked.warnings, FieldWarning("supersedes"))
              = IF NotNumberOrString(Parsed.frontmatter, "supersedes") THEN 1 ELSE 0

(* a header with a list under tdr_id and a list under supersedes was
   validated: one warning, for supersedes *)
ListsUnderBothFields ==
    /\ DocReturned
    /\ Decoded
    /\ IsMapping(Parsed.frontmatter)
    /\ NotNumberOrString(Parsed.frontmatter, "tdr_id")
    /\ NotNumberOrString(Parsed.frontmatter, "supersedes")
    /\ last.out.value.warnings = <<FieldWarning("supersedes")>>
    /\ last.out.value.valid

====
